---------------------------- MODULE Spec2Model ----------------------------
(***************************************************************************)
(* The songlink CORS proxy (src/main.rs): GET /api/links is handled by     *)
(* proxy_handler, which builds the upstream URL from the query, sends one  *)
(* GET to the upstream and relays the answer.                              *)
(*                                                                         *)
(* Text is modelled as a sequence of one-character strings, so that two    *)
(* texts are equal exactly when they are byte-identical.  A JSON object is *)
(* the set of its <<key, value>> members; the body the upstream sends is   *)
(* the ordered member list that is decoded into it.                        *)
(*                                                                         *)
(* The randomised request headers (build_request_headers and               *)
(* get_random_user_agent) decorate the outbound GET only: nothing in the   *)
(* handler reads them back, and they are left out of the state.            *)
(***************************************************************************)
EXTENDS Integers, Sequences, FiniteSets, Bags, TLC

VARIABLES reqs, calls

vars == <<reqs, calls>>

-----------------------------------------------------------------------------
(* Bounds of the model *)

\* inbound requests made in one behaviour
MaxRequests == 2
\* optional parameters one enumerated query supplies
MaxParams == 2
\* length of an enumerated url value
MaxUrlLen == 1

-----------------------------------------------------------------------------
(* Program constants *)

BAD_GATEWAY == 502
INTERNAL_SERVER_ERROR == 500
StatusOK == 200

\* "https://api.song.link/v1-alpha.1/links?"
BaseUrl ==
    <<"h","t","t","p","s",":","/","/","a","p","i",".","s","o","n","g",".",
      "l","i","n","k","/","v","1","-","a","l","p","h","a",".","1","/",
      "l","i","n","k","s","?">>

\* the six optional fields of ProxyQuery, in declaration order, with the
\* name each has in the query string
OptionalFields == <<"userCountry", "songIfSingle", "platform", "type", "id", "key">>

-----------------------------------------------------------------------------
(* Text helpers *)

TrueText == <<"t","r","u","e">>
FalseText == <<"f","a","l","s","e">>

\* the bytes urlencoding::encode leaves alone: ALPHA / DIGIT / - _ . ~
Unreserved ==
    {"a","b","c","d","e","f","g","h","i","j","k","l","m","n","o","p","q","r",
     "s","t","u","v","w","x","y","z","A","B","C","D","E","F","G","H","I","J",
     "K","L","M","N","O","P","Q","R","S","T","U","V","W","X","Y","Z",
     "0","1","2","3","4","5","6","7","8","9","-","_",".","~"}

\* %XX of the reserved ASCII characters the model uses
PercentCode(c) ==
    CASE c = "/" -> <<"%","2","F">>
      [] c = ":" -> <<"%","3","A">>
      [] c = "#" -> <<"%","2","3">>
      [] c = "&" -> <<"%","2","6">>
      [] c = "=" -> <<"%","3","D">>
      [] c = "?" -> <<"%","3","F">>
      [] c = "%" -> <<"%","2","5">>
      [] c = " " -> <<"%","2","0">>

RECURSIVE encode(_)
encode(s) ==
    IF s = <<>> THEN <<>>
    ELSE (IF Head(s) \in Unreserved THEN <<Head(s)>> ELSE PercentCode(Head(s)))
         \o encode(Tail(s))


-----------------------------------------------------------------------------
(* Query<ProxyQuery>: the inbound query string, a list of <<name, value>>   *)
(* pairs in the order the client supplied them, deserialized by field name *)

HasField(q, name) == \E i \in DOMAIN q : q[i][1] = name

FieldValue(q, name) == q[CHOOSE i \in DOMAIN q : q[i][1] = name][2]

\* Option<String>: <<>> is None, <<v>> is Some(v)
OptionField(q, name) == IF HasField(q, name) THEN <<FieldValue(q, name)>> ELSE <<>>

\* Option<bool>: serde reads the words true and false
OptionBool(q, name) ==
    IF HasField(q, name) THEN <<FieldValue(q, name) = TrueText>> ELSE <<>>

ProxyQuery(q) ==
    [url            |-> FieldValue(q, "url"),
     user_country   |-> OptionField(q, "userCountry"),
     song_if_single |-> OptionBool(q, "songIfSingle"),
     platform       |-> OptionField(q, "platform"),
     entity_type    |-> OptionField(q, "type"),
     id             |-> OptionField(q, "id"),
     key            |-> OptionField(q, "key")]

\* format!("{}", bool)
DisplayBool(b) == IF b THEN TrueText ELSE FalseText

-----------------------------------------------------------------------------
(* proxy_handler, lines 120-148: the upstream request URL *)

\* the url written as received
UrlPart_unencoded(params) ==
    IF params.url # <<>> THEN <<"u","r","l","=">> \o params.url ELSE <<>>

\* lines 122-124
UrlPart(params) ==
    IF params.url # <<>> THEN <<"u","r","l","=">> \o encode(params.url) ELSE <<>>

\* lines 126-148
OptionalPart(params) ==
    LET a1 == <<>>
        a2 == IF Len(params.user_country) > 0
              THEN a1 \o <<"&","u","s","e","r","C","o","u","n","t","r","y","=">>
                      \o params.user_country[1]
              ELSE a1
        a3 == IF Len(params.song_if_single) > 0
              THEN a2 \o <<"&","s","o","n","g","I","f","S","i","n","g","l","e","=">>
                      \o DisplayBool(params.song_if_single[1])
              ELSE a2
        a4 == IF Len(params.platform) > 0
              THEN a3 \o <<"&","p","l","a","t","f","o","r","m","=">>
                      \o params.platform[1]
              ELSE a3
        a5 == IF Len(params.entity_type) > 0
              THEN a4 \o <<"&","t","y","p","e","=">> \o params.entity_type[1]
              ELSE a4
        a6 == IF Len(params.id) > 0
              THEN a5 \o <<"&","i","d","=">> \o params.id[1]
              ELSE a5
        a7 == IF Len(params.key) > 0
              THEN a6 \o <<"&","k","e","y","=">> \o params.key[1]
              ELSE a6
    IN a7

ApiUrl(params) == BaseUrl \o UrlPart(params) \o OptionalPart(params)

-----------------------------------------------------------------------------
(* JSON values and response bodies *)

JsonString(text) == [type |-> "String", text |-> text]
JsonNumber(text) == [type |-> "Number", text |-> text]

\* response.json(): the members of the object, a repeated key keeping its
\* last value; only a well-formed body decodes
Decodable(raw) == raw.wellformed

Decode(raw) ==
    LET m == raw.members
    IN { <<m[i][1], m[i][2]>> :
           i \in { n \in DOMAIN m : \A j \in DOMAIN m : j > n => m[j][1] # m[n][1] } }

\* (StatusCode::BAD_GATEWAY, Json(ErrorResponse { error, status: 502 }))
ErrorResponse(error) ==
    [status |-> BAD_GATEWAY,
     body   |-> { <<"error", JsonString(error)>>, <<"status", JsonNumber(<<"502">>)>> }]

FetchError(e) == <<"Failed to fetch from Songlink API: ", e>>
ParseError(e) == <<"Failed to parse response: ", e>>

is_success(status) == 200 <= status /\ status < 300

\* the fallback taken for every status
from_u16_fallback(n) == INTERNAL_SERVER_ERROR

\* StatusCode::from_u16(..).unwrap_or(StatusCode::INTERNAL_SERVER_ERROR)
from_u16(n) == IF 100 <= n /\ n <= 999 THEN n ELSE INTERNAL_SERVER_ERROR

\* the upstream status passed on for every answer
Respond_mirror(status, json) == [status |-> from_u16(status), body |-> json]

\* lines 184-188: Ok(Json(json)) answers 200; Err relays the upstream status
Respond(status, json) ==
    IF is_success(status)
    THEN [status |-> StatusOK, body |-> json]
    ELSE [status |-> from_u16(status), body |-> json]

\* AppState is all that handlers share: the HTTP client and the user-agent
\* list.  It holds no response store, so no key has a stored response.
StoredKeys == {}

-----------------------------------------------------------------------------
(* The upstream: what it may answer *)

Statuses == {200, 201, 404}

NotFoundBody ==
    [wellformed |-> TRUE,
     members |-> << <<"error", JsonString(<<"not found">>)>> >>]
EntityBody ==
    [wellformed |-> TRUE,
     members |-> << <<"entityUniqueId", JsonString(<<"Y">>)>>,
                    <<"entityUniqueId", JsonString(<<"X">>)>> >>]
MalformedBody == [wellformed |-> FALSE, members |-> <<>>]

Bodies == {NotFoundBody, EntityBody, MalformedBody}
NoBody == [wellformed |-> FALSE, members |-> <<>>]

SendErrors == {"operation timed out"}
DecodeErrors == {"expected value at line 1 column 1"}

-----------------------------------------------------------------------------
(* Inbound queries *)

\* "https://monochrome.tf/#/track/1"
MirrorTrackUrl ==
    <<"h","t","t","p","s",":","/","/","m","o","n","o","c","h","r","o","m","e",
      ".","t","f","/","#","/","t","r","a","c","k","/","1">>

CountryUS == <<"U","S">>

\* the queries the clients of Spec send: the mirror url alone, and the same
\* url with two optional parameters supplied ahead of it
Queries ==
    { << <<"url", MirrorTrackUrl>> >>,
      << <<"songIfSingle", TrueText>>, <<"userCountry", CountryUS>>, <<"url", MirrorTrackUrl>> >> }

UrlAlphabet == {"a", "/", "&"}

RECURSIVE TextsUpTo(_)
TextsUpTo(n) ==
    IF n = 0 THEN {<<>>}
    ELSE LET shorter == TextsUpTo(n - 1)
         IN shorter \cup { <<c>> \o t : c \in UrlAlphabet, t \in shorter }

Values(name) ==
    CASE name = "url"          -> TextsUpTo(MaxUrlLen)
      [] name = "userCountry"  -> {CountryUS}
      [] name = "songIfSingle" -> {TrueText, FalseText}
      [] name = "platform"     -> {<<"a","&","b">>}
      [] name = "type"         -> {<<"s","o","n","g">>}
      [] name = "id"           -> {<<"1">>}
      [] name = "key"          -> {<<"k">>}

FieldNames == {"url"} \cup {OptionalFields[i] : i \in DOMAIN OptionalFields}

\* every order of the url and at most MaxParams distinct optional fields
NameOrders ==
    { s \in UNION { [1..n -> FieldNames] : n \in 1..(MaxParams + 1) } :
        /\ \A i, j \in DOMAIN s : i # j => s[i] # s[j]
        /\ \E i \in DOMAIN s : s[i] = "url" }

RECURSIVE QueriesOver(_)
QueriesOver(names) ==
    IF names = <<>> THEN {<<>>}
    ELSE { << <<Head(names), v>> >> \o rest :
             v \in Values(Head(names)), rest \in QueriesOver(Tail(names)) }

KeyQueries == UNION { QueriesOver(s) : s \in NameOrders }

-----------------------------------------------------------------------------
(* State: one record per inbound request, in the order the clients sent    *)
(* them, and the upstream's count of the GETs it received per URL.         *)
(*   pc       inbound -> send -> json -> done (the handler's await points)  *)
(*   prior    the requests already answered when the handler started       *)
(*   api_url  the upstream URL built by the handler                        *)
(*   attempts the GETs this request sent to the upstream                   *)
(*   status, raw  what the upstream answered                               *)
(*   response what the caller received                                     *)

NoResponse == [status |-> 0, body |-> {}]

NewRequest(q) ==
    [query |-> q, pc |-> "inbound", prior |-> {}, api_url |-> <<>>,
     attempts |-> 0, status |-> 0, raw |-> NoBody, response |-> NoResponse]

Answered == { i \in DOMAIN reqs : reqs[i].pc = "done" }

Init ==
    /\ reqs = <<>>
    /\ calls = EmptyBag

\* the specification of the key builder: one inbound request, its query
\* drawn from every enumerated order of fields
InitKey ==
    /\ reqs \in { <<NewRequest(q)>> : q \in KeyQueries }
    /\ calls = EmptyBag

\* a client sends GET /api/links?<q>
Request(q) ==
    /\ Len(reqs) < MaxRequests
    /\ reqs' = Append(reqs, NewRequest(q))
    /\ UNCHANGED calls

InFlight(i) == reqs[i].pc \in {"send", "json"}

SameRequest(i, j) == ProxyQuery(reqs[i].query) = ProxyQuery(reqs[j].query)

\* proxy_handler joining an identical request already in flight instead of
\* sending its own GET
proxy_handler_singleflight(i) ==
    /\ reqs[i].pc = "inbound"
    /\ LET api_url == ApiUrl(ProxyQuery(reqs[i].query))
           joins == \E j \in DOMAIN reqs : InFlight(j) /\ reqs[j].api_url = api_url
       IN /\ reqs' = [reqs EXCEPT ![i].pc = "send",
                                  ![i].prior = Answered,
                                  ![i].api_url = api_url,
                                  ![i].attempts = IF joins THEN @ ELSE @ + 1]
          /\ calls' = IF joins THEN calls ELSE calls (+) SetToBag({api_url})

\* lines 116-158: the URL is built and the GET is sent
proxy_handler(i) ==
    /\ reqs[i].pc = "inbound"
    /\ LET api_url == ApiUrl(ProxyQuery(reqs[i].query))
       IN /\ reqs' = [reqs EXCEPT ![i].pc = "send",
                                  ![i].prior = Answered,
                                  ![i].api_url = api_url,
                                  ![i].attempts = @ + 1]
          /\ calls' = calls (+) SetToBag({api_url})

\* send() failing and the GET being sent once more before giving up
send_failed_retry(i, e) ==
    /\ reqs[i].pc = "send"
    /\ IF reqs[i].attempts < 2
       THEN /\ reqs' = [reqs EXCEPT ![i].attempts = @ + 1]
            /\ calls' = calls (+) SetToBag({reqs[i].api_url})
       ELSE /\ reqs' = [reqs EXCEPT ![i].pc = "done",
                                    ![i].response = ErrorResponse(FetchError(e))]
            /\ UNCHANGED calls

\* lines 159-169: send() failed, and the handler returns without a second try
send_failed(i, e) ==
    /\ reqs[i].pc = "send"
    /\ reqs' = [reqs EXCEPT ![i].pc = "done",
                            ![i].response = ErrorResponse(FetchError(e))]
    /\ UNCHANGED calls

\* lines 154-171: the upstream answered with a status and a body
send_ok(i, status, raw) ==
    /\ reqs[i].pc = "send"
    /\ reqs' = [reqs EXCEPT ![i].pc = "json",
                            ![i].status = status,
                            ![i].raw = raw]
    /\ UNCHANGED calls

\* lines 173-188: the body is decoded and the answer relayed
response_json(i, e) ==
    /\ reqs[i].pc = "json"
    /\ reqs' = [reqs EXCEPT ![i].pc = "done",
                            ![i].response =
                                IF Decodable(reqs[i].raw)
                                THEN Respond(reqs[i].status, Decode(reqs[i].raw))
                                ELSE ErrorResponse(ParseError(e))]
    /\ UNCHANGED calls

Next ==
    \/ \E q \in Queries : Request(q)
    \/ \E i \in DOMAIN reqs : proxy_handler(i)
    \/ \E i \in DOMAIN reqs, e \in SendErrors : send_failed(i, e)
    \/ \E i \in DOMAIN reqs, status \in Statuses, raw \in Bodies : send_ok(i, status, raw)
    \/ \E i \in DOMAIN reqs, e \in DecodeErrors : response_json(i, e)

Spec == Init /\ [][Next]_vars

\* the handler alone, on the request InitKey drew
NextKey ==
    \/ \E i \in DOMAIN reqs : proxy_handler(i)
    \/ \E i \in DOMAIN reqs, e \in SendErrors : send_failed(i, e)
    \/ \E i \in DOMAIN reqs, status \in Statuses, raw \in Bodies : send_ok(i, status, raw)
    \/ \E i \in DOMAIN reqs, e \in DecodeErrors : response_json(i, e)

SpecKey == InitKey /\ [][NextKey]_vars

-----------------------------------------------------------------------------
(* Vocabulary of the properties *)

Started(i) == reqs[i].pc # "inbound"
Done(i) == reqs[i].pc = "done"

\* how the upstream call of an answered request went
TransportFailed(i) == Done(i) /\ reqs[i].status = 0
Undecodable(i) == Done(i) /\ reqs[i].status # 0 /\ ~Decodable(reqs[i].raw)
UpstreamSuccess(i) ==
    Done(i) /\ is_success(reqs[i].status) /\ Decodable(reqs[i].raw)
UpstreamRejected(i) ==
    Done(i) /\ reqs[i].status # 0 /\ ~is_success(reqs[i].status) /\ Decodable(reqs[i].raw)

\* j is an identical request whose handler started after i was answered
FollowsIdentical(i, j) == i \in reqs[j].prior /\ SameRequest(i, j) /\ Started(j)

\* i and j are identical requests in flight at the same time
ConcurrentIdentical(i, j) == i # j /\ InFlight(i) /\ InFlight(j) /\ SameRequest(i, j)

-----------------------------------------------------------------------------
\* C1: of two consecutive identical requests the first of which got an
\* upstream 2xx JSON answer, the second performs no upstream call, so the
\* pair makes exactly one outbound call.
C1_SecondServedFromCache ==
    \A i, j \in DOMAIN reqs :
        (UpstreamSuccess(i) /\ FollowsIdentical(i, j)) =>
            /\ reqs[j].attempts = 0
            /\ reqs[i].attempts + reqs[j].attempts = 1

-----------------------------------------------------------------------------
\* C2: an upstream non-2xx answer with a decodable body reaches the caller
\* with the same status and the decoded body, and an identical request made
\* afterwards makes its own upstream call.
C2_UpstreamRejectedRelayed ==
    \A i \in DOMAIN reqs :
        UpstreamRejected(i) =>
            /\ reqs[i].response.status = reqs[i].status
            /\ reqs[i].response.body = Decode(reqs[i].raw)
            /\ \A j \in DOMAIN reqs : FollowsIdentical(i, j) => reqs[j].attempts = 1

C2_Witness ==
    \E i, j \in DOMAIN reqs :
        /\ UpstreamRejected(i)
        /\ reqs[i].status = 404
        /\ reqs[i].raw = NotFoundBody
        /\ reqs[i].response =
              [status |-> 404, body |-> { <<"error", JsonString(<<"not found">>)>> }]
        /\ FollowsIdentical(i, j)
        /\ CopiesIn(reqs[i].api_url, calls) = 2

-----------------------------------------------------------------------------
\* C3: a transport failure, or a body that does not decode whatever the
\* upstream status, is answered 502 with the body {error: message, status:
\* 502}; that request made exactly one outbound attempt, and an identical
\* request made afterwards makes its own upstream call.
C3_FailureIs502OnceOnly ==
    \A i \in DOMAIN reqs :
        (TransportFailed(i) \/ Undecodable(i)) =>
            /\ reqs[i].response.status = 502
            /\ \E e \in SendErrors \cup DecodeErrors :
                  reqs[i].response.body =
                      { <<"error",
                          JsonString(IF TransportFailed(i) THEN FetchError(e) ELSE ParseError(e))>>,
                        <<"status", JsonNumber(<<"502">>)>> }
            /\ reqs[i].attempts = 1
            /\ \A j \in DOMAIN reqs : FollowsIdentical(i, j) => reqs[j].attempts = 1

C3_Witness ==
    \E i, j \in DOMAIN reqs :
        /\ TransportFailed(i)
        /\ reqs[i].response.status = 502
        /\ FollowsIdentical(i, j)
        /\ Undecodable(j)
        /\ is_success(reqs[j].status)
        /\ reqs[j].response.status = 502
        /\ CopiesIn(reqs[i].api_url, calls) = 2

-----------------------------------------------------------------------------
\* C4 as claimed: an upstream 2xx answer with a decodable body reaches the
\* caller with the decoded body and with the upstream's own 2xx status.
C4_StatusMirrorsUpstream ==
    \A i \in DOMAIN reqs :
        UpstreamSuccess(i) =>
            /\ reqs[i].response.body = Decode(reqs[i].raw)
            /\ reqs[i].response.status = reqs[i].status

\* C4 as amended: an upstream 2xx answer with a decodable body reaches the
\* caller with the decoded body and with status 200, whatever the
\* upstream's 2xx status was.
C4_SuccessAnswers200 ==
    \A i \in DOMAIN reqs :
        UpstreamSuccess(i) =>
            /\ reqs[i].response.body = Decode(reqs[i].raw)
            /\ reqs[i].response.status = 200

C4_Witness ==
    \E i \in DOMAIN reqs :
        /\ UpstreamSuccess(i)
        /\ reqs[i].status = 201
        /\ reqs[i].raw = EntityBody
        /\ reqs[i].response =
              [status |-> 200, body |-> { <<"entityUniqueId", JsonString(<<"X">>)>> }]

-----------------------------------------------------------------------------
(* The request key as the claims describe it, read off the query itself *)

NameText(name) ==
    CASE name = "userCountry"  -> <<"u","s","e","r","C","o","u","n","t","r","y">>
      [] name = "songIfSingle" -> <<"s","o","n","g","I","f","S","i","n","g","l","e">>
      [] name = "platform"     -> <<"p","l","a","t","f","o","r","m">>
      [] name = "type"         -> <<"t","y","p","e">>
      [] name = "id"           -> <<"i","d">>
      [] name = "key"          -> <<"k","e","y">>

\* &name=value of a supplied parameter, nothing of an absent one
Segment(q, name) ==
    IF HasField(q, name)
    THEN <<"&">> \o NameText(name) \o <<"=">> \o FieldValue(q, name)
    ELSE <<>>

RECURSIVE SegmentsFrom(_, _)
SegmentsFrom(q, n) ==
    IF n > Len(OptionalFields) THEN <<>>
    ELSE Segment(q, OptionalFields[n]) \o SegmentsFrom(q, n + 1)

\* %XX of every character outside ALPHA / DIGIT / - _ . ~
RECURSIVE PercentEncoded(_)
PercentEncoded(s) ==
    IF s = <<>> THEN <<>>
    ELSE LET c == Head(s)
         IN (CASE c = "/" -> <<"%","2","F">>
               [] c = "&" -> <<"%","2","6">>
               [] c = ":" -> <<"%","3","A">>
               [] c = "#" -> <<"%","2","3">>
               [] c = "=" -> <<"%","3","D">>
               [] c = "?" -> <<"%","3","F">>
               [] c = "%" -> <<"%","2","5">>
               [] c = " " -> <<"%","2","0">>
               [] OTHER   -> <<c>>) \o PercentEncoded(Tail(s))

UrlSegment(q) == <<"u","r","l","=">> \o PercentEncoded(FieldValue(q, "url"))

\* the same fields supplied in every other order
Reorderings(q) ==
    { [i \in DOMAIN q |-> q[f[i]]] : f \in Permutations(DOMAIN q) }

\* C5 as claimed: for every url value the key is the base endpoint, the
\* percent-encoded url, then one &name=value per supplied parameter in the
\* fixed order, and it is the same for every order of supplying them.
C5_KeyIsBaseUrlSegments ==
    \A i \in DOMAIN reqs :
        Started(i) =>
            LET q == reqs[i].query
            IN /\ reqs[i].api_url = BaseUrl \o UrlSegment(q) \o SegmentsFrom(q, 1)
               /\ \A p \in Reorderings(q) : ApiUrl(ProxyQuery(p)) = reqs[i].api_url

\* C5 as amended: the same for every non-empty url; for the empty url no
\* url= segment is written, and the key is the base endpoint followed
\* directly by the parameter segments.
C5_KeyBuilder ==
    \A i \in DOMAIN reqs :
        Started(i) =>
            LET q == reqs[i].query
            IN /\ reqs[i].api_url =
                    BaseUrl
                    \o (IF FieldValue(q, "url") = <<>> THEN <<>> ELSE UrlSegment(q))
                    \o SegmentsFrom(q, 1)
               /\ \A p \in Reorderings(q) : ApiUrl(ProxyQuery(p)) = reqs[i].api_url

\* a url that needs encoding, with two parameters supplied against the
\* fixed order and ahead of the url
C5_Witness ==
    \E i \in DOMAIN reqs :
        /\ Started(i)
        /\ reqs[i].query =
              << <<"platform", <<"a","&","b">>>>, <<"songIfSingle", FalseText>>, <<"url", <<"/">>>> >>
        /\ reqs[i].api_url =
              BaseUrl \o <<"u","r","l","=","%","2","F">>
              \o <<"&","s","o","n","g","I","f","S","i","n","g","l","e","=","f","a","l","s","e">>
              \o <<"&","p","l","a","t","f","o","r","m","=","a","&","b">>

-----------------------------------------------------------------------------
(* The normalizer as the claim describes it *)

\* "monochrome.tf" is rewritten to "listen.tidal.com"
MirrorRules ==
    << [mirror    |-> <<"m","o","n","o","c","h","r","o","m","e",".","t","f">>,
        canonical |-> <<"l","i","s","t","e","n",".","t","i","d","a","l",".","c","o","m">>] >>

OccursAt(sub, s, k) ==
    /\ k + Len(sub) - 1 <= Len(s)
    /\ SubSeq(s, k, k + Len(sub) - 1) = sub

Contains(s, sub) == \E k \in 1..Len(s) : OccursAt(sub, s, k)

ReplaceFirst(s, sub, by) ==
    LET k == CHOOSE n \in 1..Len(s) :
                 OccursAt(sub, s, n) /\ \A m \in 1..(n - 1) : ~OccursAt(sub, s, m)
    IN SubSeq(s, 1, k - 1) \o by \o SubSeq(s, k + Len(sub), Len(s))

\* only the first rule that matches is applied, once
Normalize(url) ==
    IF \E r \in DOMAIN MirrorRules : Contains(url, MirrorRules[r].mirror)
    THEN LET r == CHOOSE n \in DOMAIN MirrorRules :
                      /\ Contains(url, MirrorRules[n].mirror)
                      /\ \A m \in 1..(n - 1) : ~Contains(url, MirrorRules[m].mirror)
         IN ReplaceFirst(url, MirrorRules[r].mirror, MirrorRules[r].canonical)
    ELSE url

\* C6: the upstream request of every request is built from the normalized
\* url: a url containing a mirror substring goes upstream with the
\* canonical host in its place.
C6_KeyFromNormalizedUrl ==
    \A i \in DOMAIN reqs :
        Started(i) =>
            reqs[i].api_url =
                ApiUrl([ProxyQuery(reqs[i].query) EXCEPT !.url = Normalize(@)])

-----------------------------------------------------------------------------
\* C9 as claimed: identical requests in flight at the same time make at
\* most one upstream call between them.
C9_SingleFlight ==
    \A i, j \in DOMAIN reqs :
        ConcurrentIdentical(i, j) => reqs[i].attempts + reqs[j].attempts <= 1

\* C9 as amended: there is no single flight.  Identical requests in flight
\* at the same time have each made one upstream call of their own, so the
\* upstream has received at least two calls for their key.
C9_NoSingleFlight ==
    \A i, j \in DOMAIN reqs :
        ConcurrentIdentical(i, j) =>
            /\ reqs[i].attempts = 1
            /\ reqs[j].attempts = 1
            /\ reqs[i].api_url = reqs[j].api_url
            /\ CopiesIn(reqs[i].api_url, calls) >= 2

C9_Witness ==
    \E i, j \in DOMAIN reqs :
        /\ ConcurrentIdentical(i, j)
        /\ reqs[i].attempts = 1
        /\ reqs[j].attempts = 1
        /\ CopiesIn(reqs[i].api_url, calls) = 2

-----------------------------------------------------------------------------
\* C10: two identical requests that were in flight at the same time and
\* both got an upstream 2xx JSON answer have both written the cache, so the
\* key has a stored response once both are answered.
C10_ConcurrentMissesBothWrite ==
    \A i, j \in DOMAIN reqs :
        ( /\ i # j
          /\ SameRequest(i, j)
          /\ UpstreamSuccess(i) /\ UpstreamSuccess(j)
          /\ i \notin reqs[j].prior /\ j \notin reqs[i].prior )
        => /\ reqs[i].attempts = 1 /\ reqs[j].attempts = 1
           /\ reqs[i].api_url \in StoredKeys

=============================================================================
